---- MODULE Spec2Model ----
(***************************************************************************)
(* k8s-zk-announser: the service informer (Watcher) of informer.go feeding *)
(* the Updater (Synchronizer) through the Updater's events channel.        *)
(*                                                                         *)
(* A service object is [namespace, name, rv, ok]: rv is its resource       *)
(* version (one per delivered version of any object, as the API server     *)
(* assigns them from one counter), and ok says whether newUpdaterEvent     *)
(* accepts the object.  The address/port data of a version is identified   *)
(* with its resource version.                                              *)
(***************************************************************************)
EXTENDS Integers, Sequences, FiniteSets, TLC

\* ---- bounds ----
MaxRV == 2          \* object versions the API server hands out
ChanCap == 1        \* buffer of the events channel
MaxRetries == 1     \* store-write attempts counted per notification
MaxFeed == 3        \* notifications a harness feeds to the Updater

Namespaces == {"default"}
Names == {"web", "db"}
Keys == Namespaces \X Names

eventCreate == "eventCreate"
eventUpdate == "eventUpdate"
eventDelete == "eventDelete"
EventTypes == {eventCreate, eventUpdate, eventDelete}

\* the Updater goroutines serviceController.Run can start
UpdaterIds == {1, 2}

VARIABLES
    k8s,        \* the call of k8sGetClient: its arguments and its result
    runPc,      \* serviceController.Run: "new", "running", "returned";
                \* "exited" once the caller has ended the process
    stopCh,     \* TRUE once stopCh is closed
    crashed,    \* TRUE once a handler has panicked (the process is gone)
    rvClock,    \* the last resource version handed out
    indexer,    \* sc.indexer: key -> cached service object
    drift,      \* key -> the live object, where the watch missed its event
    pending,    \* the handler's channel send in progress: <<>> or <<event>>
    events,     \* sc.updater.events, the channel's buffer
    updaters,   \* the running Updater.Run goroutines
    inflight,   \* updater -> [event, phase, attempts] it has dequeued
    storeUp,    \* the coordination store is reachable
    store,      \* the coordination store: path -> payload
    sent,       \* history: every notification sent on the channel
    applied,    \* history: every notification the Updater has finished
    firstDelayed, \* history: a store write of the first notification failed
    lastSig,    \* history: the last delta the informer processed
    arrived     \* history: key -> the handler that first got the cached version

vars == <<k8s, runPc, stopCh, crashed, rvClock, indexer, drift, pending, events,
          updaters, inflight, storeUp, store, sent, applied, firstDelayed,
          lastSig, arrived>>

watcherVars == <<rvClock, indexer, drift, pending, lastSig, arrived, crashed>>
syncVars == <<inflight, store, applied, firstDelayed>>

\* ---- keys, paths, payloads ----

MetaNamespaceKeyFunc(obj) == <<obj.namespace, obj.name>>

IsService(obj) == "rv" \in DOMAIN obj

\* cache.DeletionHandlingMetaNamespaceKeyFunc: a tombstone yields its Key
DeletionHandlingMetaNamespaceKeyFunc(obj) ==
    IF IsService(obj) THEN MetaNamespaceKeyFunc(obj) ELSE obj.Key

\* the leaf path of a service: /<namespace>/<name>
LeafPath(svc) == <<svc.namespace, svc.name>>

\* the proper, non-empty prefixes of a path, shortest first
AncestorSeq(path) == [i \in 1..(Len(path) - 1) |-> SubSeq(path, 1, i)]

\* the leaf payload: the encoded address/ports of this version
Encode(svc) == [address |-> svc.name, version |-> svc.rv]

EmptyPayload == [address |-> "", version |-> 0]

RemoveKey(f, k) == [x \in (DOMAIN f) \ {k} |-> f[x]]

PutKey(f, k, v) == [x \in (DOMAIN f) \cup {k} |-> IF x = k THEN v ELSE f[x]]

\* ---- the cluster client: k8sGetClientConfig, k8sGetClient ----

\* the credential files a -kubeconfig flag can name
ConfigPaths == {"admin.conf", "dev.conf", "stale.conf"}

NilConfig == [source |-> "nil", path |-> ""]

\* the environment of a call: the files clientcmd can load, whether the
\* in-cluster credentials are mounted, whether NewForConfig accepts the
\* configuration
ClientEnvs == [fileOk : SUBSET ConfigPaths, inClusterOk : BOOLEAN, newOk : BOOLEAN]

\* clientcmd.BuildConfigFromFlags("", kubeconfigPath)
BuildConfigFromFlags(path, env) ==
    IF path \in env.fileOk
    THEN [config |-> [source |-> "file", path |-> path], err |-> ""]
    ELSE [config |-> NilConfig, err |-> "load"]

\* rest.InClusterConfig()
InClusterConfig(env) ==
    IF env.inClusterOk
    THEN [config |-> [source |-> "inCluster", path |-> ""], err |-> ""]
    ELSE [config |-> NilConfig, err |-> "notInCluster"]

\* kubernetes.NewForConfig(config)
NewForConfig(config, env) ==
    IF config # NilConfig /\ env.newOk
    THEN [client |-> "clientset", err |-> ""]
    ELSE [client |-> "nil", err |-> "newForConfig"]

\* loader names the function the configuration was asked of
k8sGetClientConfig(kubeconfig, env) ==
    IF kubeconfig # ""
    THEN [loader |-> "BuildConfigFromFlags"] @@ BuildConfigFromFlags(kubeconfig, env)
    ELSE [loader |-> "InClusterConfig"] @@ InClusterConfig(env)

k8sGetClientUnchecked(kubeconfig, env) ==
    LET c == k8sGetClientConfig(kubeconfig, env)
    IN  [client |-> "clientset", err |-> c.err, loader |-> c.loader, config |-> c.config]

k8sGetClient(kubeconfig, env) ==
    LET c == k8sGetClientConfig(kubeconfig, env)
    IN  IF c.err # ""
        THEN [client |-> "nil", err |-> c.err, loader |-> c.loader, config |-> c.config]
        ELSE LET n == NewForConfig(c.config, env)
             IN  IF n.err # ""
                 THEN [client |-> "nil", err |-> n.err, loader |-> c.loader,
                       config |-> c.config]
                 ELSE [client |-> n.client, err |-> "", loader |-> c.loader,
                       config |-> c.config]

NoResult == [client |-> "nil", err |-> "", loader |-> "", config |-> NilConfig]

\* the call of k8sGetClient(kubeconfig) in the environment env
GetClient ==
    /\ k8s.pc = "call"
    /\ k8s' = [k8s EXCEPT !.pc = "done",
                          !.result = k8sGetClient(k8s.kubeconfig, k8s.env)]
    /\ UNCHANGED <<runPc, stopCh, events, updaters, storeUp, sent>>
    /\ UNCHANGED watcherVars
    /\ UNCHANGED syncVars

\* the controller is built with the client of a call that succeeded
ClientReady ==
    LET env == [fileOk |-> {}, inClusterOk |-> TRUE, newOk |-> TRUE]
    IN  [kubeconfig |-> "", env |-> env, pc |-> "done", result |-> k8sGetClient("", env)]

\* ---- the Watcher: handlers of newServiceController ----

\* newUpdaterEvent(t, service): an event, or an error for an object it
\* does not accept
newUpdaterEvent(t, service) ==
    [err |-> ~service.ok, event |-> [eventType |-> t, service |-> service]]

\* what a handler does: the events it sends and whether it panics
Sends(e) == [send |-> <<e>>, panic |-> FALSE]
NoSend == [send |-> <<>>, panic |-> FALSE]
Panic == [send |-> <<>>, panic |-> TRUE]

AddFunc(obj) ==
    LET r == newUpdaterEvent(eventCreate, obj)
    IN  IF r.err THEN NoSend ELSE Sends(r.event)

UpdateFuncNoCheck(old, new) ==
    LET r == newUpdaterEvent(eventUpdate, new)
    IN  IF r.err THEN NoSend ELSE Sends(r.event)

UpdateFuncStale(old, new) ==
    IF new.rv # old.rv
    THEN LET r == newUpdaterEvent(eventUpdate, old)
         IN  IF r.err THEN NoSend ELSE Sends(r.event)
    ELSE NoSend

UpdateFuncInverted(old, new) ==
    IF new.rv = old.rv
    THEN LET r == newUpdaterEvent(eventUpdate, new)
         IN  IF r.err THEN NoSend ELSE Sends(r.event)
    ELSE NoSend

UpdateFunc(old, new) ==
    IF new.rv # old.rv
    THEN LET r == newUpdaterEvent(eventUpdate, new)
         IN  IF r.err THEN NoSend ELSE Sends(r.event)
    ELSE NoSend

\* obj.(*v1.Service) panics on a cache.DeletedFinalStateUnknown
DeleteFunc(obj) ==
    IF ~IsService(obj) THEN Panic
    ELSE LET r == newUpdaterEvent(eventDelete, obj)
         IN  IF r.err THEN NoSend ELSE Sends(r.event)

\* the handler the informer built by cache.NewIndexerInformer calls for a
\* delta: OnDelete for Deleted; for Sync/Added/Updated, OnUpdate when the
\* key is in the indexer and OnAdd when it is not
HandlerAlwaysAdd(delta, known) ==
    IF delta = "Deleted" THEN "DeleteFunc" ELSE "AddFunc"

Handler(delta, known) ==
    IF delta = "Deleted" THEN "DeleteFunc"
    ELSE IF known THEN "UpdateFunc" ELSE "AddFunc"

\* the informer processes one delta: the indexer is updated first, then
\* the handler runs up to its channel send
Process(delta, obj) ==
    LET key == DeletionHandlingMetaNamespaceKeyFunc(obj)
        known == key \in DOMAIN indexer
        h == Handler(delta, known)
        res == CASE h = "DeleteFunc" -> DeleteFunc(obj)
                 [] h = "UpdateFunc" -> UpdateFunc(indexer[key], obj)
                 [] OTHER -> AddFunc(obj)
    IN  /\ indexer' = IF delta = "Deleted" THEN RemoveKey(indexer, key)
                      ELSE PutKey(indexer, key, obj)
        /\ pending' = res.send
        /\ crashed' = res.panic
        /\ lastSig' = [delta |-> delta, key |-> key, handler |-> h,
                       known |-> known, sends |-> res.send # <<>>]
        /\ arrived' = IF delta = "Deleted" THEN RemoveKey(arrived, key)
                      ELSE IF known /\ indexer[key] = obj THEN arrived
                      ELSE PutKey(arrived, key, h)

\* the process runs: no handler has panicked and the caller of Run has
\* not ended it
Alive == ~crashed /\ runPc # "exited"

InformerReady ==
    /\ runPc # "new"
    /\ ~stopCh
    /\ Alive
    /\ pending = <<>>

NewObj(k, ok) == [namespace |-> k[1], name |-> k[2], rv |-> rvClock + 1, ok |-> ok]

\* a watch Added/Modified event, or a Sync of a re-list, carrying a new
\* version of the object
DeliverNew(k, ok) ==
    /\ InformerReady
    /\ rvClock < MaxRV
    /\ rvClock' = rvClock + 1
    /\ Process(IF k \in DOMAIN indexer THEN "Updated" ELSE "Added", NewObj(k, ok))
    /\ drift' = RemoveKey(drift, k)
    /\ UNCHANGED <<k8s, runPc, stopCh, events, updaters, storeUp, sent>>
    /\ UNCHANGED syncVars

\* a resync, or an Added re-delivered after a watch reconnection: the
\* object the indexer already holds
Redeliver(k) ==
    /\ InformerReady
    /\ k \in DOMAIN indexer
    /\ Process("Sync", indexer[k])
    /\ UNCHANGED <<k8s, runPc, stopCh, rvClock, drift, events, updaters, storeUp, sent>>
    /\ UNCHANGED syncVars

\* a watch Deleted event carrying the object's final state
WatchDeleted(k) ==
    /\ InformerReady
    /\ k \in DOMAIN indexer
    /\ Process("Deleted", indexer[k])
    /\ drift' = RemoveKey(drift, k)
    /\ UNCHANGED <<k8s, runPc, stopCh, rvClock, events, updaters, storeUp, sent>>
    /\ UNCHANGED syncVars

\* a re-list after a watch gap no longer has the key: the informer
\* synthesizes a Deleted delta carrying a DeletedFinalStateUnknown
RelistDeleted(k) ==
    /\ InformerReady
    /\ k \in DOMAIN indexer
    /\ Process("Deleted", [Key |-> k, Obj |-> indexer[k]])
    /\ drift' = RemoveKey(drift, k)
    /\ UNCHANGED <<k8s, runPc, stopCh, rvClock, events, updaters, storeUp, sent>>
    /\ UNCHANGED syncVars

\* the object changes while the watch is disconnected: the informer gets
\* no event and its cached copy drifts from the live object
MissEvent(k, ok) ==
    /\ InformerReady
    /\ rvClock < MaxRV
    /\ k \in DOMAIN indexer
    /\ k \notin DOMAIN drift
    /\ rvClock' = rvClock + 1
    /\ drift' = PutKey(drift, k, NewObj(k, ok))
    /\ UNCHANGED <<k8s, runPc, stopCh, crashed, indexer, pending, lastSig, arrived,
                   events, updaters, storeUp, sent>>
    /\ UNCHANGED syncVars

\* the re-list after the watch reconnects delivers the live object
Relist(k) ==
    /\ InformerReady
    /\ k \in DOMAIN drift
    /\ Process("Sync", drift[k])
    /\ drift' = RemoveKey(drift, k)
    /\ UNCHANGED <<k8s, runPc, stopCh, rvClock, events, updaters, storeUp, sent>>
    /\ UNCHANGED syncVars

\* sc.updater.events <- *event completes when the buffer has room
SendOrDrop ==
    /\ Alive
    /\ pending # <<>>
    /\ events' = IF Len(events) < ChanCap THEN Append(events, pending[1]) ELSE events
    /\ sent' = IF Len(events) < ChanCap THEN Append(sent, pending[1]) ELSE sent
    /\ pending' = <<>>
    /\ UNCHANGED <<k8s, runPc, stopCh, crashed, rvClock, indexer, drift, updaters, storeUp,
                   lastSig, arrived>>
    /\ UNCHANGED syncVars

Send ==
    /\ Alive
    /\ pending # <<>>
    /\ Len(events) < ChanCap
    /\ events' = Append(events, pending[1])
    /\ sent' = Append(sent, pending[1])
    /\ pending' = <<>>
    /\ UNCHANGED <<k8s, runPc, stopCh, crashed, rvClock, indexer, drift, updaters, storeUp,
                   lastSig, arrived>>
    /\ UNCHANGED syncVars

\* ---- the coordination store client ----

\* each call fails with Unavailable while the store is unreachable
CreatePath(st, up, path) ==
    IF ~up THEN [err |-> "Unavailable", store |-> st]
    ELSE IF path \in DOMAIN st THEN [err |-> "NodeExists", store |-> st]
    ELSE IF Len(path) > 1 /\ SubSeq(path, 1, Len(path) - 1) \notin DOMAIN st
         THEN [err |-> "NoNode", store |-> st]
    ELSE [err |-> "", store |-> PutKey(st, path, EmptyPayload)]

SetPayload(st, up, path, data) ==
    IF ~up THEN [err |-> "Unavailable", store |-> st]
    ELSE IF path \notin DOMAIN st THEN [err |-> "NoNode", store |-> st]
    ELSE [err |-> "", store |-> PutKey(st, path, data)]

DeletePath(st, up, path) ==
    IF ~up THEN [err |-> "Unavailable", store |-> st]
    ELSE IF path \notin DOMAIN st THEN [err |-> "NoNode", store |-> st]
    ELSE [err |-> "", store |-> RemoveKey(st, path)]

\* ---- the Synchronizer: Updater.Run ----

\* "path already exists" while creating a segment is success
CreateErrStrict(err) == err # ""

CreateErr(err) == err \notin {"", "NodeExists"}

\* "path does not exist" while deleting the leaf is success
DeleteErrStrict(err) == err # ""

DeleteErr(err) == err \notin {"", "NoNode"}

\* create the segments paths[i..] that are missing, shortest first
RECURSIVE EnsureFrom(_, _, _, _)
EnsureFrom(st, up, paths, i) ==
    IF i > Len(paths) THEN [err |-> "", store |-> st]
    ELSE LET r == CreatePath(st, up, paths[i])
         IN  IF CreateErr(r.err) THEN [err |-> r.err, store |-> r.store]
             ELSE EnsureFrom(r.store, up, paths, i + 1)

\* the path of the service and all its ancestors exist
EnsurePath(st, up, leaf) == EnsureFrom(st, up, Append(AncestorSeq(leaf), leaf), 1)

FirstPhase(e) == IF e.eventType = eventDelete THEN "delete" ELSE "ensure"

Min(a, b) == IF a < b THEN a ELSE b

UpdaterReady(u) ==
    /\ Alive
    /\ u \in updaters

\* the drain loop receives the next notification from the channel
Dequeue(u) ==
    /\ UpdaterReady(u)
    /\ u \notin DOMAIN inflight
    /\ events # <<>>
    /\ inflight' = PutKey(inflight, u, [event |-> Head(events), attempts |-> 0,
                                        phase |-> FirstPhase(Head(events))])
    /\ events' = Tail(events)
    /\ UNCHANGED <<runPc, stopCh, updaters, storeUp, store, sent, applied, firstDelayed>>
    /\ UNCHANGED watcherVars
    /\ UNCHANGED k8s

\* the outcome of one store call of the notification in flight: done,
\* on to the next phase, retried after a backoff, or discarded
OutcomeDropOnError(u, err, fatal, st, next) ==
    LET w == inflight[u]
    IN  IF err = "Unavailable"
        THEN /\ inflight' = RemoveKey(inflight, u)
             /\ store' = st
             /\ applied' = applied
             /\ firstDelayed' = (firstDelayed \/ applied = <<>>)
        ELSE IF fatal
        THEN /\ inflight' = RemoveKey(inflight, u)
             /\ store' = st
             /\ applied' = Append(applied, [event |-> w.event, outcome |-> "discarded"])
             /\ firstDelayed' = firstDelayed
        ELSE IF next # "done"
        THEN /\ inflight' = [inflight EXCEPT ![u].phase = next]
             /\ store' = st
             /\ applied' = applied
             /\ firstDelayed' = firstDelayed
        ELSE /\ inflight' = RemoveKey(inflight, u)
             /\ store' = st
             /\ applied' = Append(applied, [event |-> w.event, outcome |-> "applied"])
             /\ firstDelayed' = firstDelayed

Outcome(u, err, fatal, st, next) ==
    LET w == inflight[u]
    IN  IF err = "Unavailable"
        THEN /\ inflight' = [inflight EXCEPT ![u].attempts = Min(@ + 1, MaxRetries),
                                             ![u].phase = FirstPhase(w.event)]
             /\ store' = st
             /\ applied' = applied
             /\ firstDelayed' = (firstDelayed \/ applied = <<>>)
        ELSE IF fatal
        THEN /\ inflight' = RemoveKey(inflight, u)
             /\ store' = st
             /\ applied' = Append(applied, [event |-> w.event, outcome |-> "discarded"])
             /\ firstDelayed' = firstDelayed
        ELSE IF next # "done"
        THEN /\ inflight' = [inflight EXCEPT ![u].phase = next]
             /\ store' = st
             /\ applied' = applied
             /\ firstDelayed' = firstDelayed
        ELSE /\ inflight' = RemoveKey(inflight, u)
             /\ store' = st
             /\ applied' = Append(applied, [event |-> w.event, outcome |-> "applied"])
             /\ firstDelayed' = firstDelayed

\* Create/Update, first call: ensure the path and its ancestors exist
EnsureStep(u) ==
    /\ UpdaterReady(u)
    /\ u \in DOMAIN inflight
    /\ inflight[u].phase = "ensure"
    /\ LET r == EnsurePath(store, storeUp, LeafPath(inflight[u].event.service))
       IN  Outcome(u, r.err, CreateErr(r.err), r.store, "set")
    /\ UNCHANGED <<runPc, stopCh, events, updaters, storeUp, sent>>
    /\ UNCHANGED watcherVars
    /\ UNCHANGED k8s

\* Create/Update, second call: set the leaf payload
SetStep(u) ==
    /\ UpdaterReady(u)
    /\ u \in DOMAIN inflight
    /\ inflight[u].phase = "set"
    /\ LET svc == inflight[u].event.service
           r == SetPayload(store, storeUp, LeafPath(svc), Encode(svc))
       IN  Outcome(u, r.err, r.err # "", r.store, "done")
    /\ UNCHANGED <<runPc, stopCh, events, updaters, storeUp, sent>>
    /\ UNCHANGED watcherVars
    /\ UNCHANGED k8s

\* Delete: remove the leaf path
DeleteStep(u) ==
    /\ UpdaterReady(u)
    /\ u \in DOMAIN inflight
    /\ inflight[u].phase = "delete"
    /\ LET r == DeletePath(store, storeUp, LeafPath(inflight[u].event.service))
       IN  Outcome(u, r.err, DeleteErr(r.err), r.store, "done")
    /\ UNCHANGED <<runPc, stopCh, events, updaters, storeUp, sent>>
    /\ UNCHANGED watcherVars
    /\ UNCHANGED k8s

\* the drain loop returns on the cancellation signal, between notifications
UpdaterExit(u) ==
    /\ UpdaterReady(u)
    /\ stopCh
    /\ u \notin DOMAIN inflight
    /\ updaters' = updaters \ {u}
    /\ UNCHANGED <<runPc, stopCh, events, storeUp, sent>>
    /\ UNCHANGED watcherVars
    /\ UNCHANGED k8s
    /\ UNCHANGED syncVars

\* ---- serviceController.Run ----

RunUpdatersTwice == {1, 2}

\* go c.updater.Run(stopCh): one drain loop
RunUpdaters == {1}

Run ==
    /\ Alive
    /\ runPc = "new"
    /\ runPc' = "running"
    /\ updaters' = RunUpdaters
    /\ UNCHANGED <<stopCh, events, storeUp, sent>>
    /\ UNCHANGED watcherVars
    /\ UNCHANGED k8s
    /\ UNCHANGED syncVars

\* <-stopCh
RunReturn ==
    /\ Alive
    /\ runPc = "running"
    /\ stopCh
    /\ runPc' = "returned"
    /\ UNCHANGED <<stopCh, events, updaters, storeUp, sent>>
    /\ UNCHANGED watcherVars
    /\ UNCHANGED k8s
    /\ UNCHANGED syncVars

\* Run has returned and its caller ends the process, with every
\* goroutine Run started
ProcessExit ==
    /\ Alive
    /\ runPc = "returned"
    /\ runPc' = "exited"
    /\ UNCHANGED <<k8s, stopCh, events, updaters, storeUp, sent>>
    /\ UNCHANGED watcherVars
    /\ UNCHANGED syncVars

\* ---- the environment ----

\* the caller closes stopCh
Stop ==
    /\ ~stopCh
    /\ runPc = "running"
    /\ stopCh' = TRUE
    /\ UNCHANGED <<runPc, events, updaters, storeUp, sent>>
    /\ UNCHANGED watcherVars
    /\ UNCHANGED k8s
    /\ UNCHANGED syncVars

StoreDown ==
    /\ storeUp
    /\ storeUp' = FALSE
    /\ UNCHANGED <<runPc, stopCh, events, updaters, sent>>
    /\ UNCHANGED watcherVars
    /\ UNCHANGED k8s
    /\ UNCHANGED syncVars

StoreRecover ==
    /\ ~storeUp
    /\ storeUp' = TRUE
    /\ UNCHANGED <<runPc, stopCh, events, updaters, sent>>
    /\ UNCHANGED watcherVars
    /\ UNCHANGED k8s
    /\ UNCHANGED syncVars

\* a harness in the Watcher's place sends any notification newUpdaterEvent
\* can build; versions are numbered in the order they first appear
Feed(t, k, rv) ==
    /\ runPc = "running"
    /\ Len(sent) < MaxFeed
    /\ Len(events) < ChanCap
    /\ rv <= Min(rvClock + 1, MaxRV)
    /\ rvClock' = IF rv > rvClock THEN rv ELSE rvClock
    /\ LET e == [eventType |-> t,
                 service |-> [namespace |-> k[1], name |-> k[2], rv |-> rv, ok |-> TRUE]]
       IN  /\ events' = Append(events, e)
           /\ sent' = Append(sent, e)
    /\ UNCHANGED <<k8s, runPc, stopCh, crashed, indexer, drift, pending, lastSig, arrived,
                   updaters, storeUp>>
    /\ UNCHANGED syncVars

\* ---- specifications ----

\* the controller as newServiceController leaves it
NewController ==
    /\ runPc = "new"
    /\ stopCh = FALSE
    /\ crashed = FALSE
    /\ rvClock = 0
    /\ indexer = <<>>
    /\ drift = <<>>
    /\ pending = <<>>
    /\ events = <<>>
    /\ updaters = {}
    /\ inflight = <<>>
    /\ storeUp \in BOOLEAN
    /\ store = <<>>
    /\ sent = <<>>
    /\ applied = <<>>
    /\ firstDelayed = FALSE
    /\ lastSig = [delta |-> "", key |-> <<>>, handler |-> "", known |-> FALSE, sends |-> FALSE]
    /\ arrived = <<>>

Init ==
    /\ k8s = ClientReady
    /\ NewController

Next ==
    \/ Run
    \/ RunReturn
    \/ ProcessExit
    \/ Stop
    \/ StoreDown
    \/ StoreRecover
    \/ \E k \in Keys, ok \in BOOLEAN : DeliverNew(k, ok)
    \/ \E k \in Keys : Redeliver(k)
    \/ \E k \in Keys, ok \in BOOLEAN : MissEvent(k, ok)
    \/ \E k \in Keys : Relist(k)
    \/ \E k \in Keys : WatchDeleted(k)
    \/ \E k \in Keys : RelistDeleted(k)
    \/ Send
    \/ \E u \in UpdaterIds : Dequeue(u)
    \/ \E u \in UpdaterIds : EnsureStep(u)
    \/ \E u \in UpdaterIds : SetStep(u)
    \/ \E u \in UpdaterIds : DeleteStep(u)
    \/ \E u \in UpdaterIds : UpdaterExit(u)

Spec == Init /\ [][Next]_vars

\* the Updater alone, its channel fed by a harness
FeedNext ==
    \/ Run
    \/ StoreDown
    \/ StoreRecover
    \/ \E t \in EventTypes, k \in Keys, rv \in 1..MaxRV : Feed(t, k, rv)
    \/ \E u \in UpdaterIds : Dequeue(u)
    \/ \E u \in UpdaterIds : EnsureStep(u)
    \/ \E u \in UpdaterIds : SetStep(u)
    \/ \E u \in UpdaterIds : DeleteStep(u)

FeedSpec == Init /\ [][FeedNext]_vars

\* k8sGetClient alone, called with any flag value in any environment
ClientInit ==
    /\ k8s \in [kubeconfig : ConfigPaths \cup {""}, env : ClientEnvs,
                 pc : {"call"}, result : {NoResult}]
    /\ NewController

ClientNext == GetClient

ClientSpec == ClientInit /\ [][ClientNext]_vars

\* ---- properties ----

\* the notifications the handlers have sent or are sending, in order
Emitted == sent \o pending

KeyOfEvent(e) == MetaNamespaceKeyFunc(e.service)

\* the positions of the notifications of type t carrying the object o
NotifsOf(t, o) == {i \in DOMAIN Emitted : Emitted[i] = [eventType |-> t, service |-> o]}

\* the positions of the notifications of type t for the key k
NotifsForKey(t, k) ==
    {i \in DOMAIN Emitted : Emitted[i].eventType = t /\ KeyOfEvent(Emitted[i]) = k}

IsPrefix(a, b) == Len(a) <= Len(b) /\ SubSeq(b, 1, Len(a)) = a

AppliedEvents == [i \in DOMAIN applied |-> applied[i].event]

\* the leaf entries of the store
LeafEntries == {p \in DOMAIN store : Len(p) = 2}

LeafMap == [p \in LeafEntries |-> store[p]]

\* no notification is queued, being sent or being applied, and the store
\* is reachable
Settled ==
    /\ events = <<>>
    /\ pending = <<>>
    /\ inflight = <<>>
    /\ storeUp

\* C1: in every settled state the store entries are exactly the live
\* services (the objects the informer holds), each with the encoding of
\* the live object's latest version.
C1_StoreMirrorsLive ==
    Settled =>
        /\ LeafEntries = {LeafPath(indexer[k]) : k \in DOMAIN indexer}
        /\ \A k \in DOMAIN indexer : store[LeafPath(indexer[k])] = Encode(indexer[k])

\* C2 (as stated): an object that arrived by an add signal has, however
\* often it is delivered again with the same resource version, exactly one
\* Create and no Update notification.
C2_OneCreatePerAddedObject ==
    \A k \in DOMAIN indexer :
        arrived[k] = "AddFunc" =>
            /\ Cardinality(NotifsOf(eventCreate, indexer[k])) = 1
            /\ Cardinality(NotifsOf(eventUpdate, indexer[k])) = 0

\* C2 (amended): deliveries that repeat the cached resource version emit
\* nothing: the cached object has one Create and no Update if it arrived
\* by an add signal and newUpdaterEvent accepts it, one Update and no
\* Create if it arrived by an update signal and is accepted, and no
\* notification at all if newUpdaterEvent rejects it.
C2_DedupSameVersion ==
    \A k \in DOMAIN indexer :
        LET o == indexer[k]
        IN  /\ Cardinality(NotifsOf(eventCreate, o)) =
                   IF arrived[k] = "AddFunc" /\ o.ok THEN 1 ELSE 0
            /\ Cardinality(NotifsOf(eventUpdate, o)) =
                   IF arrived[k] = "UpdateFunc" /\ o.ok THEN 1 ELSE 0

\* the cached object of an add signal has just been delivered again with
\* the same resource version, and it has its one Create and no Update
C2_Witness ==
    /\ lastSig.delta = "Sync"
    /\ lastSig.handler = "UpdateFunc"
    /\ lastSig.key \in DOMAIN indexer
    /\ arrived[lastSig.key] = "AddFunc"
    /\ Cardinality(NotifsOf(eventCreate, indexer[lastSig.key])) = 1
    /\ Cardinality(NotifsOf(eventUpdate, indexer[lastSig.key])) = 0

\* C3: a handler starts to send a Create only for a key that was absent
\* from the indexer when the delta arrived.
C3_CreateOnlyForAbsentKey ==
    [][(pending' # pending /\ pending' # <<>> /\ pending'[1].eventType = eventCreate)
         => KeyOfEvent(pending'[1]) \notin DOMAIN indexer]_vars

\* a known key has been delivered again, nothing was sent for it, and the
\* key still has the single Create of its first delivery
C3_Witness ==
    /\ lastSig.known
    /\ lastSig.delta = "Sync"
    /\ ~lastSig.sends
    /\ lastSig.key \in DOMAIN indexer
    /\ Cardinality(NotifsForKey(eventCreate, lastSig.key)) = 1

\* C4: every Update or Delete sent on the channel follows a Create sent
\* for the same key.
C4_CreateFirst ==
    \A i \in DOMAIN sent :
        sent[i].eventType # eventCreate =>
            \E j \in 1..(i - 1) :
                /\ sent[j].eventType = eventCreate
                /\ KeyOfEvent(sent[j]) = KeyOfEvent(sent[i])

\* C5: at most one notification is being applied, and the notifications
\* are applied in the order they were sent on the channel.
C5_SerialFifo ==
    /\ Cardinality(DOMAIN inflight) <= 1
    /\ IsPrefix(AppliedEvents, sent)

\* Create, Update and Delete of one key were applied in that order, the
\* Create first of all and after a store write of it had failed
C5_Witness ==
    \E i, j, l \in DOMAIN applied :
        /\ i < j /\ j < l
        /\ i = 1
        /\ firstDelayed
        /\ applied[i].event.eventType = eventCreate
        /\ applied[j].event.eventType = eventUpdate
        /\ applied[l].event.eventType = eventDelete
        /\ KeyOfEvent(applied[i].event) = KeyOfEvent(applied[j].event)
        /\ KeyOfEvent(applied[j].event) = KeyOfEvent(applied[l].event)

\* folding the notifications seq[i..] over the map m: Create and Update
\* put the encoded service at its path, Delete removes the path
RECURSIVE FoldFrom(_, _, _)
FoldFrom(seq, i, m) ==
    IF i > Len(seq) THEN m
    ELSE LET e == seq[i]
             p == LeafPath(e.service)
         IN  FoldFrom(seq, i + 1,
                      IF e.eventType = eventDelete
                      THEN [x \in (DOMAIN m) \ {p} |-> m[x]]
                      ELSE [x \in (DOMAIN m) \cup {p} |->
                               IF x = p THEN Encode(e.service) ELSE m[x]])

Fold(seq) == FoldFrom(seq, 1, <<>>)

\* every notification fed so far has been taken and finished
Drained ==
    /\ events = <<>>
    /\ inflight = <<>>

\* C6: once every notification fed to the Updater is finished, the leaf
\* entries of the store (paths and payloads) are the fold of the fed
\* sequence over the empty map.
C6_StoreIsFold == Drained => LeafMap = Fold(sent)

\* the same Create was fed twice and both services of the namespace have
\* an entry, so the second one found its ancestor already there
C6_Witness ==
    /\ Drained
    /\ \E i, j \in DOMAIN sent :
           i < j /\ sent[i] = sent[j] /\ sent[i].eventType = eventCreate
    /\ Cardinality(LeafEntries) = 2

\* C7: a Delete applied while the store is reachable and the leaf is
\* absent finishes as applied, without an error, and leaves the store
\* as it was.
C7_DeleteAbsentIsNoop ==
    [][\A u \in UpdaterIds :
          (/\ DeleteStep(u)
           /\ storeUp
           /\ LeafPath(inflight[u].event.service) \notin DOMAIN store)
          => /\ store' = store
             /\ u \notin DOMAIN inflight'
             /\ applied' = Append(applied, [event |-> inflight[u].event,
                                            outcome |-> "applied"])]_vars

\* two Deletes of one key were applied one after the other
C7_Witness ==
    \E i \in DOMAIN applied :
        /\ i + 1 \in DOMAIN applied
        /\ applied[i].event.eventType = eventDelete
        /\ applied[i + 1].event.eventType = eventDelete
        /\ KeyOfEvent(applied[i].event) = KeyOfEvent(applied[i + 1].event)
        /\ applied[i + 1].outcome = "applied"
        /\ LeafPath(applied[i].event.service) \notin DOMAIN store

\* C8: a Create that met an unavailable store is retried until it is
\* applied: once the process has ended and the store is reachable again,
\* no Create that was retried is left unapplied.
C8_RetriedCreateApplied ==
    (crashed /\ storeUp) =>
        \A u \in DOMAIN inflight :
            ~(inflight[u].event.eventType = eventCreate /\ inflight[u].attempts > 0)

\* C9: every delete signal removes the key from the indexer and makes the
\* handler send one Delete for the key, also when the delta carries a
\* DeletedFinalStateUnknown.
C9_DeleteUnconditional ==
    [][\A k \in Keys :
          (WatchDeleted(k) \/ RelistDeleted(k))
          => /\ k \notin DOMAIN indexer'
             /\ ~crashed'
             /\ Len(pending') = 1
             /\ pending'[1].eventType = eventDelete
             /\ KeyOfEvent(pending'[1]) = k]_vars

\* C10 (as stated): an update signal with a new resource version makes
\* the handler send one Update carrying the new object.
C10_UpdateAlwaysSent ==
    [][\A k \in Keys, ok \in BOOLEAN :
          (DeliverNew(k, ok) /\ k \in DOMAIN indexer)
          => pending' = <<[eventType |-> eventUpdate, service |-> NewObj(k, ok)]>>]_vars

\* C10 (amended): an update signal with a new resource version makes the
\* handler send one Update carrying the new object when newUpdaterEvent
\* accepts the new object, and nothing when it rejects it.
C10_UpdateSentWhenAccepted ==
    [][\A k \in Keys, ok \in BOOLEAN :
          (DeliverNew(k, ok) /\ k \in DOMAIN indexer)
          => /\ pending' = IF ok
                           THEN <<[eventType |-> eventUpdate, service |-> NewObj(k, ok)]>>
                           ELSE <<>>
             /\ sent' = sent]_vars

\* an update signal with a new resource version has just been handled and
\* the handler is sending the Update with the object now cached
C10_Witness ==
    /\ lastSig.delta = "Updated"
    /\ lastSig.handler = "UpdateFunc"
    /\ lastSig.key \in DOMAIN indexer
    /\ pending = <<[eventType |-> eventUpdate, service |-> indexer[lastSig.key]]>>

\* C11: when newUpdaterEvent rejects the object of an add, update or
\* delete signal, the handler sends nothing and the indexer is left as it
\* was before the signal.
C11_RejectedLeavesCache ==
    [][\A k \in Keys :
          (\/ DeliverNew(k, FALSE)
           \/ (WatchDeleted(k) /\ ~indexer[k].ok)
           \/ (Relist(k) /\ ~drift[k].ok))
          => /\ pending' = <<>>
             /\ indexer' = indexer]_vars

\* C12: no signal the informer can deliver makes a handler panic.
C12_NoHandlerCrash == ~crashed

\* C13: while a notification is in flight the Updater takes nothing from
\* the channel and finishes no other notification; a store call that
\* fails with Unavailable leaves the same notification in flight, and the
\* notification leaves the Updater only by being recorded as applied or
\* discarded.
C13_RetryBeforeNext ==
    [][\A u \in DOMAIN inflight :
          /\ IsPrefix(events, events')
          /\ \/ /\ u \in DOMAIN inflight'
                /\ inflight'[u].event = inflight[u].event
                /\ applied' = applied
             \/ /\ u \notin DOMAIN inflight'
                /\ \E o \in {"applied", "discarded"} :
                       applied' = Append(applied, [event |-> inflight[u].event,
                                                   outcome |-> o])
          /\ (~storeUp /\ (EnsureStep(u) \/ SetStep(u) \/ DeleteStep(u)))
             => /\ u \in DOMAIN inflight'
                /\ inflight'[u].attempts > 0]_vars

\* a store call of the notification in flight has failed while the store
\* is unreachable and the next notification waits in the channel
C13_Witness ==
    \E u \in DOMAIN inflight :
        /\ inflight[u].attempts > 0
        /\ ~storeUp
        /\ events # <<>>

\* the notifications the Updater has received, in the order it received
\* them, followed by those waiting in the channel
Received ==
    AppliedEvents \o [i \in 1..Cardinality(DOMAIN inflight) |->
                         inflight[CHOOSE u \in DOMAIN inflight : TRUE].event]

\* C14: a handler's send ends only by putting its notification at the
\* tail of the channel; while it waits, the informer dispatches nothing;
\* and the notifications the Updater has received followed by those in
\* the channel are, in order, exactly the notifications the handlers
\* have sent, so none is dropped.
C14_BlockingSendNoDrop ==
    [][/\ pending # <<>> =>
            /\ \/ /\ pending' = pending
                  /\ events' = events \/ (events # <<>> /\ events' = Tail(events))
               \/ /\ pending' = <<>>
                  /\ Len(events) < ChanCap
                  /\ events' = Append(events, pending[1])
            /\ indexer' = indexer
            /\ lastSig' = lastSig
       /\ Received' \o events' = sent'
       /\ IsPrefix(Emitted, Emitted')]_vars

\* a handler waits on a full channel while the Updater retries the
\* notification in flight against an unreachable store
C14_Witness ==
    /\ pending # <<>>
    /\ Len(events) = ChanCap
    /\ \E u \in DOMAIN inflight : inflight[u].attempts > 0
    /\ Len(sent) = ChanCap + 1

\* C15: a handler's send never waits for ever: while a send waits, the
\* channel has room or an Updater is running that can make room.
C15_SendNotStuck ==
    (Alive /\ pending # <<>>) => (Len(events) < ChanCap \/ updaters # {})

\* the steps of the program itself: the handlers' send, the Updater, and
\* the return of Run
ProgramSteps ==
    \/ Send
    \/ RunReturn
    \/ \E u \in UpdaterIds : Dequeue(u) \/ EnsureStep(u) \/ SetStep(u)
                             \/ DeleteStep(u) \/ UpdaterExit(u)

\* C16: Run returns only after stopCh is closed, and once stopCh is
\* closed and the program can take no further step, the Watcher's handler
\* has ended, the Updater's drain loop has ended and Run has returned.
C16_StopsAfterCancel ==
    /\ runPc \in {"returned", "exited"} => stopCh
    /\ (stopCh /\ Alive /\ ~ENABLED ProgramSteps)
           => /\ pending = <<>>
              /\ updaters = {}
              /\ runPc = "returned"

\* C17: when the process has exited after Run returned, no notification
\* the Updater had dequeued is left neither applied nor discarded.
C17_DequeuedAppliedBeforeExit ==
    runPc = "exited" => inflight = <<>>

\* C18: every leaf entry of the store has a Create of its key that the
\* Updater has applied or is applying, with no Delete of the key applied
\* after that Create.
C18_EntryOnlyAfterCreate ==
    \A p \in LeafEntries :
        \E i \in DOMAIN Received :
            /\ Received[i].eventType = eventCreate
            /\ LeafPath(Received[i].service) = p
            /\ \A j \in (i + 1)..Len(applied) :
                   ~(/\ applied[j].event.eventType = eventDelete
                     /\ LeafPath(applied[j].event.service) = p)

C20_ClientOrError ==
    k8s.pc = "done" =>
        LET r == k8s.result
            kubeconfig == k8s.kubeconfig
        IN  /\ r.loader = IF kubeconfig # "" THEN "BuildConfigFromFlags"
                          ELSE "InClusterConfig"
            /\ r.config \in {NilConfig,
                             IF kubeconfig # ""
                             THEN [source |-> "file", path |-> kubeconfig]
                             ELSE [source |-> "inCluster", path |-> ""]}
            /\ (r.err # "") <=> (r.client = "nil")
            /\ (r.config = NilConfig \/ ~k8s.env.newOk)
                   => (r.err # "" /\ r.client = "nil")
            /\ (kubeconfig \in k8s.env.fileOk /\ k8s.env.newOk)
                   => (r.err = "" /\ r.client = "clientset")

\* a call with a credential file that loads, whose configuration
\* NewForConfig then refuses, has returned the error and a nil client
C20_Witness ==
    /\ k8s.pc = "done"
    /\ k8s.kubeconfig \in k8s.env.fileOk
    /\ ~k8s.env.newOk
    /\ k8s.result.config = [source |-> "file", path |-> k8s.kubeconfig]
    /\ k8s.result.err = "newForConfig"
    /\ k8s.result.client = "nil"

====
